---- MODULE Spec2Model ----
(***************************************************************************)
(* Ludolph MCP server: the path guard (security.py), the tool registry and *)
(* dispatcher (tools/__init__.py), the administrative tools                *)
(* (tools/meta.py) and the SIGHUP reload (server.py).                      *)
(*                                                                         *)
(* Eight specifications share the module:                                  *)
(*   PathSpec    init_security and safe_path over a small file system      *)
(*   Spec        the plugin directory, the catalog, call_tool and reload   *)
(*   PluginSpec  create_tool, delete_tool and the import of the tools      *)
(*               package over every content of the plugin directory        *)
(*   ReloadSpec  reload_tools() in a request thread, the SIGHUP handler in *)
(*               the main thread, and a rebuild that may fail              *)
(*   ScanSpec    _load_custom_tools over every content of the plugin       *)
(*               directory and every order glob may list it in             *)
(*   ValidateSpec  _validate_tool_code over short source texts             *)
(*   NameSpec    the file create_tool and delete_tool address, over short  *)
(*               name arguments                                            *)
(*   RaceSpec    two create_tool calls in two request threads              *)
(***************************************************************************)
EXTENDS Naturals, Sequences, FiniteSets, TLC

VARIABLES
    \* ---- security.py ----
    links,          \* the symbolic links of the file system: path -> target
    vaultArg,       \* the vault_path main() hands to init_security
    _VAULT_PATH,    \* security._VAULT_PATH (None until init_security)
    relative,       \* the argument of the safe_path call
    spResult,       \* how the safe_path call ended (NoCall before it)
    toolRun         \* the built-in handler that made the call: what it
                    \* returned and which location it read or wrote

VARIABLES
    \* ---- tools/__init__.py, tools/meta.py, server.py ----
    files,          \* ~/.ludolph/custom_tools: file stem -> code (or NoFile)
    TOOLS,          \* tools.TOOLS, the active tool definitions
    HANDLERS,       \* tools.HANDLERS, the active name -> handler mapping
    reload,         \* the reload coordinator: Idle, ReloadRequested, Rebuilding
    calls,          \* per request worker: the call it serves and what it saw
    story           \* history: greet.py deleted while loaded ("deleted"), and a
                    \* reload that scanned after that has completed ("reloaded")

VARIABLES
    \* ---- the process and the administrative calls ----
    boot,           \* the tools package: "down" before its import, then "up",
                    \* or "crashed" when the import raised
    admin,          \* the last create_tool / delete_tool call: its arguments,
                    \* the directory before it, its result, and whether the
                    \* catalog has been built since
    rt,             \* the reload_tools() call of a request thread, and what
                    \* became of the SIGHUP it sent
    scan            \* the last run of _load_custom_tools: the order in which
                    \* glob yielded the files, and the modules it executed

VARIABLES
    \* ---- the guards of tools/meta.py and concurrent callers ----
    source,         \* the code argument handed to _validate_tool_code
    verdict,        \* how that call ended (NoOutcome before it)
    named,          \* the name argument of a create_tool / delete_tool call
                    \* and the file the call addressed
    creators        \* per request thread running _create_tool: its
                    \* arguments, its position and its result

catVars == <<files, TOOLS, HANDLERS, reload, calls, story>>

pathVars == <<links, vaultArg, _VAULT_PATH, relative, spResult, toolRun>>

adminVars == <<boot, admin, scan>>

sigVars == <<rt>>

guardVars == <<source, verdict, named>>

raceVars == <<creators>>

vars == <<links, vaultArg, _VAULT_PATH, relative, spResult, toolRun,
          files, TOOLS, HANDLERS, reload, calls, story,
          boot, admin, rt, scan, source, verdict, named, creators>>

None == "None"

(***************************************************************************)
(* Strings are sequences of characters.  NUL is the zero byte, which the   *)
(* operating system refuses in a file name.                                *)
(***************************************************************************)
MaxLen == 4

Chars == {"a", "l", "v", ".", "/", "NUL"}

Strings == UNION {[1..n -> Chars] : n \in 0..MaxLen}

DotDot == <<".", ".">>
Dot == <<".">>

\* Python's `sub in s` for strings
Contains(s, sub) ==
    \E i \in 1..(Len(s) - Len(sub) + 1) : SubSeq(s, i, i + Len(sub) - 1) = sub

(***************************************************************************)
(* A path is the sequence of its components below the root "/".            *)
(***************************************************************************)
VaultDir == << <<"v">> >>            \* the real directory /v
AliasDir == << <<"s">> >>            \* /s, a symbolic link to /v
OutsideDir == << <<"o">> >>          \* /o, a directory outside the vault
LinkInVault == << <<"v">>, <<"l">> >>    \* /v/l, which may be a symbolic link
InsideDir == << <<"v">>, <<"a">> >>  \* /v/a

\* The file systems considered: /s -> /v always; /v/l is a plain name, a link
\* that leaves the vault, or a link that stays in it.
LinkConfigs ==
    { [p \in {AliasDir} |-> VaultDir],
      [p \in {AliasDir, LinkInVault} |-> IF p = AliasDir THEN VaultDir ELSE OutsideDir],
      [p \in {AliasDir, LinkInVault} |-> IF p = AliasDir THEN VaultDir ELSE InsideDir] }

\* str.split("/")
RECURSIVE SplitSlash(_, _)
SplitSlash(s, cur) ==
    IF s = <<>> THEN <<cur>>
    ELSE IF Head(s) = "/" THEN <<cur>> \o SplitSlash(Tail(s), <<>>)
    ELSE SplitSlash(Tail(s), Append(cur, Head(s)))

\* pathlib's parsing of a path string: empty and "." components are dropped
Parts(s) == SelectSeq(SplitSlash(s, <<>>), LAMBDA c : c # <<>> /\ c # Dot)

IsAbsolute(s) == s # <<>> /\ Head(s) = "/"

\* pathlib's `vault / relative`: an absolute right operand replaces the left
JoinPath(vault, s) == IF IsAbsolute(s) THEN Parts(s) ELSE vault \o Parts(s)

HasNul(parts) == \E i \in 1..Len(parts) : \E j \in 1..Len(parts[i]) : parts[i][j] = "NUL"

\* os.path.realpath: walk the components, ".." pops, a symbolic link is
\* replaced by its target (targets here are canonical)
RECURSIVE Walk(_, _)
Walk(cur, rest) ==
    IF rest = <<>> THEN cur
    ELSE LET c == Head(rest)
             nxt == Append(cur, c)
         IN IF c = DotDot
            THEN Walk(IF cur = <<>> THEN <<>> ELSE SubSeq(cur, 1, Len(cur) - 1), Tail(rest))
            ELSE IF nxt \in DOMAIN links
                 THEN Walk(links[nxt], Tail(rest))
                 ELSE Walk(nxt, Tail(rest))

\* Path.resolve(): the canonical path, or ValueError("embedded null byte")
Resolve(parts) ==
    IF HasNul(parts) THEN [kind |-> "raise", exc |-> "ValueError"]
    ELSE [kind |-> "path", path |-> Walk(<<>>, parts)]

\* PurePath.relative_to(vault) succeeds iff vault's parts are a prefix
RelativeToMutant(full, vault) == TRUE

relative_to(full, vault) ==
    Len(vault) <= Len(full) /\ SubSeq(full, 1, Len(vault)) = vault

\* init_security: _VAULT_PATH = vault_path.resolve()
InitSecurityMutant(arg) == arg

init_security_value(arg) == Resolve(arg).path

\* the ".." test of safe_path
RejectsDotDotMutant(s) == \E i \in 1..Len(SplitSlash(s, <<>>)) : SplitSlash(s, <<>>)[i] = DotDot

RejectsDotDot(s) == Contains(s, DotDot)

\* get_vault_path
get_vault_path ==
    IF _VAULT_PATH = None
    THEN [kind |-> "raise", exc |-> "RuntimeError"]
    ELSE [kind |-> "path", path |-> _VAULT_PATH]

\* safe_path(relative): a path, None, or the exception that leaves the call
safe_path(s) ==
    LET vault == get_vault_path
    IN IF vault.kind = "raise" THEN vault
       ELSE IF RejectsDotDot(s) THEN [kind |-> None]
       ELSE IF s = <<>> \/ s = Dot THEN vault
       ELSE LET full == Resolve(JoinPath(vault.path, s))
            IN IF full.kind = "raise" THEN full
               ELSE IF relative_to(full.path, vault.path) THEN full
               ELSE [kind |-> None]


(***************************************************************************)
(* Plugin code.  A source text is described by what the validator reads in *)
(* it (meta._validate_tool_code) and by what happens when the loader       *)
(* executes it (tools._load_custom_tools).                                 *)
(*   A, B  two well-formed plugins, each defining the tool "greet"         *)
(*   X     passes validation, raises while it is executed at load time     *)
(*   D     calls os.system (first entry of FORBIDDEN_PATTERNS)             *)
(*   R     a well-formed plugin defining "read_file", a built-in's name    *)
(*   Q     passes validation, calls sys.exit() while it is executed        *)
(*   T     assigns TOOLS (the tool "greet") and only mentions HANDLERS in  *)
(*         a comment: it passes validation and exports TOOLS alone         *)
(*   H     the same with HANDLERS alone                                    *)
(*   P     assigns TOOLS and a HANDLERS that is not a mapping, so that     *)
(*         handlers.update(module.HANDLERS) raises TypeError               *)
(* CodeIds are the sources offered to create_tool; ScanCodes the sources   *)
(* the files of a scanned directory hold.                                  *)
(***************************************************************************)
NoFile == "NoFile"

CodeIds == {"A", "B", "X", "D", "R", "Q"}

Code(c) ==
    [empty |-> FALSE, markTOOLS |-> TRUE, markHANDLERS |-> TRUE,
     forbidden |-> IF c = "D" THEN 1 ELSE 0,
     syntaxOk |-> TRUE,
     exec |-> IF c = "X" THEN "raises" ELSE IF c = "Q" THEN "exits" ELSE "ok",
     hasTOOLS |-> c \notin {"X", "Q", "H"},
     TOOLS |-> IF c \in {"X", "Q", "H"} THEN <<>>
               ELSE IF c = "R" THEN <<"read_file">> ELSE <<"greet">>,
     hasHANDLERS |-> c \notin {"X", "Q", "T"},
     HANDLERS |-> IF c \in {"X", "Q", "T", "P"} THEN {}
                  ELSE IF c = "R" THEN {"read_file"} ELSE {"greet"},
     merge |-> IF c = "P" THEN "raises" ELSE "ok"]

ScanCodes == {"A", "B", "R", "X", "Q", "T", "H", "P"}

\* the file stems of the plugin directory, in the order sorted() gives them
Stems == <<"greet", "zeta">>
StemSet == {Stems[i] : i \in 1..Len(Stems)}

Spell(stem) ==
    CASE stem = "greet" -> <<"g", "r", "e", "e", "t">>
      [] stem = "zeta" -> <<"z", "e", "t", "a">>
      [] stem = "_x" -> <<"_", "x">>

\* every file stem a directory may hold, in ascending order of file name
\* ("_" sorts before the lower-case letters); _x.py is a file create_tool
\* cannot write
ScanStems == <<"_x", "greet", "zeta">>
ScanStemSet == {ScanStems[i] : i \in 1..Len(ScanStems)}
Rank(stem) == CHOOSE i \in 1..Len(ScanStems) : ScanStems[i] = stem

Unspell(s) == CHOOSE stem \in StemSet : Spell(stem) = s

Letters == {"a", "e", "g", "r", "t", "x", "z"}
Digits == {"0", "1"}

\* str.strip(): white space is removed at both ends (LF is the line feed)
Whitespace == {" ", "LF"}
RECURSIVE LStrip(_)
LStrip(s) == IF s # <<>> /\ Head(s) \in Whitespace THEN LStrip(Tail(s)) ELSE s
RECURSIVE RStrip(_)
RStrip(s) == IF s # <<>> /\ s[Len(s)] \in Whitespace THEN RStrip(SubSeq(s, 1, Len(s) - 1)) ELSE s
Strip(s) == RStrip(LStrip(s))

\* re.match(r"^[a-zA-Z][a-zA-Z0-9_]*$", name); "$" matches at the end of
\* the string and also before a line feed that ends it
NameMatches(name) ==
    LET body == IF name # <<>> /\ name[Len(name)] = "LF"
                THEN SubSeq(name, 1, Len(name) - 1) ELSE name
    IN /\ body # <<>>
       /\ Head(body) \in Letters
       /\ \A i \in 2..Len(body) : body[i] \in Letters \cup Digits \cup {"_"}

ValidateToolNameMutant(name) ==
    IF name = <<>> THEN "Tool name is required"
    ELSE IF Head(name) = "_" THEN "Tool name cannot start with underscore"
    ELSE None

\* meta._validate_tool_name: the error message, or None
_validate_tool_name(name) ==
    IF name = <<>> THEN "Tool name is required"
    ELSE IF ~NameMatches(name)
    THEN "Tool name must start with a letter and contain only alphanumeric characters and underscores"
    ELSE IF Head(name) = "_" THEN "Tool name cannot start with underscore"
    ELSE None

\* meta._validate_tool_code: the error message, or None
ValidateToolCodeMutant(c) ==
    IF Code(c).empty THEN "Code is required"
    ELSE IF ~Code(c).markTOOLS THEN "Code must define TOOLS list"
    ELSE IF ~Code(c).markHANDLERS THEN "Code must define HANDLERS dict"
    ELSE IF ~Code(c).syntaxOk THEN "Syntax error"
    ELSE None

_validate_tool_code(c) ==
    IF Code(c).empty THEN "Code is required"
    ELSE IF ~Code(c).markTOOLS THEN "Code must define TOOLS list"
    ELSE IF ~Code(c).markHANDLERS THEN "Code must define HANDLERS dict"
    ELSE IF Code(c).forbidden # 0 THEN "Forbidden pattern detected"
    ELSE IF ~Code(c).syntaxOk THEN "Syntax error"
    ELSE None

(***************************************************************************)
(* The registry.  Each of the 13 built-in modules is represented by its    *)
(* first tool.                                                             *)
(***************************************************************************)
CoreNames ==
    <<"read_file", "list_directory", "search", "file_info", "prepend_file",
      "periodic_note", "read_files", "list_tags", "document_outline",
      "extract_tasks", "find_replace", "get_backlinks", "vault_stats">>

CoreNameSet == {CoreNames[i] : i \in 1..Len(CoreNames)}

ToolDef(name, mod, code) == [name |-> name, mod |-> mod, code |-> code]
Handler(name, mod, code) == [name |-> name, mod |-> mod, code |-> code]

_CORE_TOOLS == [i \in 1..Len(CoreNames) |-> ToolDef(CoreNames[i], "core", "builtin")]
_CORE_HANDLERS == [n \in CoreNameSet |-> Handler(n, "core", "builtin")]

\* dict.update / {**a, **b}: the right operand wins
MergeMutant(a, b) ==
    [n \in DOMAIN a \cup DOMAIN b |-> IF n \in DOMAIN a THEN a[n] ELSE b[n]]

Merge(a, b) ==
    [n \in DOMAIN a \cup DOMAIN b |-> IF n \in DOMAIN b THEN b[n] ELSE a[n]]

EmptyMap == [n \in {} |-> n]

LoadOneStopsMutant(acc, stem, c) ==
    IF Code(c).exec # "ok"
    THEN [acc EXCEPT !.raised = "Exception", !.executed = @ \o <<stem>>]
    ELSE [tools |-> acc.tools \o [i \in 1..Len(Code(c).TOOLS) |->
                                     ToolDef(Code(c).TOOLS[i], stem, c)],
          handlers |-> Merge(acc.handlers,
                             [n \in Code(c).HANDLERS |-> Handler(n, stem, c)]),
          raised |-> acc.raised,
          executed |-> acc.executed \o <<stem>>]

\* the body of the loader's loop for one file: (tools, handlers) after it;
\* `raised` is the exception that leaves the loop (`except Exception` does
\* not catch SystemExit), `executed` the modules exec_module has run
LoadOne(acc, stem, c) ==
    IF Code(c).exec = "raises" THEN [acc EXCEPT !.executed = @ \o <<stem>>]
    ELSE IF Code(c).exec = "exits"
    THEN [acc EXCEPT !.raised = "SystemExit", !.executed = @ \o <<stem>>]
    ELSE LET t == IF ~Code(c).hasTOOLS THEN acc.tools
                  ELSE acc.tools \o [i \in 1..Len(Code(c).TOOLS) |->
                                        ToolDef(Code(c).TOOLS[i], stem, c)]
             h == IF ~Code(c).hasHANDLERS \/ Code(c).merge = "raises"
                  THEN acc.handlers
                  ELSE Merge(acc.handlers,
                             [n \in Code(c).HANDLERS |-> Handler(n, stem, c)])
         IN [tools |-> t, handlers |-> h, raised |-> acc.raised,
             executed |-> acc.executed \o <<stem>>]

\* the files of the directory, and the orders in which custom_dir.glob
\* may yield them (the order of the file system, which is arbitrary)
Present(dir) == {st \in DOMAIN dir : dir[st] # NoFile}

Listings(dir) ==
    {l \in [1..Cardinality(Present(dir)) -> Present(dir)] :
        \A i, j \in DOMAIN l : l[i] = l[j] => i = j}

\* sorted(...): ascending by file name
RECURSIVE Insert(_, _)
Insert(st, seq) ==
    IF seq = <<>> THEN <<st>>
    ELSE IF Rank(st) <= Rank(Head(seq)) THEN <<st>> \o seq
    ELSE <<Head(seq)>> \o Insert(st, Tail(seq))

RECURSIVE InsertionSort(_)
InsertionSort(l) == IF l = <<>> THEN <<>> ELSE Insert(Head(l), InsertionSort(Tail(l)))

SortedMutant(l) == l

sorted(l) == InsertionSort(l)

\* the loop of _load_custom_tools over the files in the order `order`
RECURSIVE LoadFrom(_, _, _, _)
LoadFrom(dir, order, i, acc) ==
    IF i > Len(order) \/ acc.raised # None THEN acc
    ELSE IF Head(Spell(order[i])) = "_"
         THEN LoadFrom(dir, order, i + 1, acc)
         ELSE LoadFrom(dir, order, i + 1, LoadOne(acc, order[i], dir[order[i]]))

\* _load_custom_tools when glob yields the files as `listing`
Scan(dir, listing) ==
    LoadFrom(dir, sorted(listing), 1,
             [tools |-> <<>>, handlers |-> EmptyMap, raised |-> None,
              executed |-> <<>>])

\* _load_custom_tools over the directory content `dir`
_load_custom_tools(dir) == Scan(dir, CHOOSE l \in Listings(dir) : TRUE)

\* TOOLS = list(_CORE_TOOLS) + _custom_tools
\* HANDLERS = {**_CORE_HANDLERS, **_custom_handlers}
Build(dir) ==
    LET custom == _load_custom_tools(dir)
    IN [tools |-> _CORE_TOOLS \o custom.tools,
        handlers |-> Merge(_CORE_HANDLERS, custom.handlers)]

(***************************************************************************)
(* Handlers and what invoking one may do.  A handler is arbitrary code:    *)
(* depending on its arguments and on the vault it returns a result,        *)
(* returns something else, or raises.                                      *)
(***************************************************************************)
ToolResult(content, error) == [content |-> content, error |-> error]
Ret(v) == [kind |-> "return", value |-> v]
Raise(exc, msg) == [kind |-> "raise", exc |-> exc, msg |-> msg]

\* the classes `except Exception` catches, among those raised here
ExceptionClasses == {"Exception", "ValueError", "KeyError"}

Outcomes(h) ==
    IF h.mod = "core"
    THEN { Ret(ToolResult("file content", None)),
           Ret(ToolResult("", "Invalid path")),
           Raise("KeyError", "'path'") }
    ELSE { Ret(ToolResult("hello from " \o h.code, None)),
           Ret(ToolResult("", "greeting failed")),
           Ret(ToolResult("partial", "greeting failed")),
           Ret([text |-> "hi"]),
           Raise("ValueError", "boom"),
           Raise("SystemExit", "bye") }

\* call_tool's miss: {"content": "", "error": f"Unknown tool: {name}"}
UnknownToolMutant(name) == ToolResult("", "Unknown tool")

UnknownTool(name) == ToolResult("", "Unknown tool: " \o name)

\* call_tool's try/except around the handler: `except Exception as e`
CatchMutant(o) == o

Catch(o) ==
    IF o.kind = "raise" /\ o.exc \in ExceptionClasses
    THEN Ret(ToolResult("", o.msg))
    ELSE o

NoHandler == [name |-> None, mod |-> None, code |-> None]
NoOutcome == [kind |-> "none"]

\* how the import of the tools package ends: with the catalog, or with the
\* exception that left _load_custom_tools
BuildOutcome(dir) ==
    IF _load_custom_tools(dir).raised # None
    THEN Raise(_load_custom_tools(dir).raised, "")
    ELSE Ret(Build(dir))

(***************************************************************************)
(* The administrative handlers of tools/meta.py on the plugin directory.   *)
(***************************************************************************)
ArgNames ==
    { Spell("greet"), Spell("zeta"), <<" ">> \o Spell("greet"),
      <<"_", "x">>, <<>> }

\* the create_tool calls considered: (name, code)
CreateArgs ==
    { <<Spell("greet"), "A">>, <<<<" ">> \o Spell("greet"), "A">>,
      <<Spell("zeta"), "B">>, <<Spell("greet"), "D">>, <<<<"_", "x">>, "A">> }

\* meta._create_tool: the directory afterwards and the result returned
CreateWritesFirstMutant(dir, rawname, c) ==
    LET name == Strip(rawname)
    IN IF _validate_tool_name(name) # None
       THEN [files |-> dir, result |-> ToolResult("", _validate_tool_name(name))]
       ELSE IF dir[Unspell(name)] # NoFile
       THEN [files |-> dir,
             result |-> ToolResult("", "Tool '" \o Unspell(name) \o "' already exists. Delete it first to replace.")]
       ELSE IF _validate_tool_code(c) # None
       THEN [files |-> [dir EXCEPT ![Unspell(name)] = c],
             result |-> ToolResult("", _validate_tool_code(c))]
       ELSE [files |-> [dir EXCEPT ![Unspell(name)] = c],
             result |-> ToolResult("Created custom tool: " \o Unspell(name), None)]

CreateOverwritesMutant(dir, rawname, c) ==
    LET name == Strip(rawname)
    IN IF _validate_tool_name(name) # None
       THEN [files |-> dir, result |-> ToolResult("", _validate_tool_name(name))]
       ELSE IF _validate_tool_code(c) # None
       THEN [files |-> dir, result |-> ToolResult("", _validate_tool_code(c))]
       ELSE [files |-> [dir EXCEPT ![Unspell(name)] = c],
             result |-> ToolResult("Created custom tool: " \o Unspell(name), None)]

_create_tool(dir, rawname, c) ==
    LET name == Strip(rawname)
    IN IF _validate_tool_name(name) # None
       THEN [files |-> dir, result |-> ToolResult("", _validate_tool_name(name))]
       ELSE IF _validate_tool_code(c) # None
       THEN [files |-> dir, result |-> ToolResult("", _validate_tool_code(c))]
       ELSE IF dir[Unspell(name)] # NoFile
       THEN [files |-> dir,
             result |-> ToolResult("", "Tool '" \o Unspell(name) \o "' already exists. Delete it first to replace.")]
       ELSE [files |-> [dir EXCEPT ![Unspell(name)] = c],
             result |-> ToolResult("Created custom tool: " \o Unspell(name), None)]

\* meta._delete_tool
DeleteEveryFileMutant(dir, rawname) ==
    LET name == Strip(rawname)
    IN IF _validate_tool_name(name) # None
       THEN [files |-> dir, result |-> ToolResult("", _validate_tool_name(name))]
       ELSE IF dir[Unspell(name)] = NoFile
       THEN [files |-> dir,
             result |-> ToolResult("", "Tool '" \o Unspell(name) \o "' not found")]
       ELSE [files |-> [st \in StemSet |-> NoFile],
             result |-> ToolResult("Deleted custom tool: " \o Unspell(name), None)]

DeleteToolMutant(dir, rawname) ==
    LET name == Strip(rawname)
    IN IF _validate_tool_name(name) # None
       THEN [files |-> dir, result |-> ToolResult("", _validate_tool_name(name))]
       ELSE IF dir[Unspell(name)] = NoFile
       THEN [files |-> dir,
             result |-> ToolResult("", "Tool '" \o Unspell(name) \o "' not found")]
       ELSE [files |-> dir,
             result |-> ToolResult("Deleted custom tool: " \o Unspell(name), None)]

_delete_tool(dir, rawname) ==
    LET name == Strip(rawname)
    IN IF _validate_tool_name(name) # None
       THEN [files |-> dir, result |-> ToolResult("", _validate_tool_name(name))]
       ELSE IF dir[Unspell(name)] = NoFile
       THEN [files |-> dir,
             result |-> ToolResult("", "Tool '" \o Unspell(name) \o "' not found")]
       ELSE [files |-> [dir EXCEPT ![Unspell(name)] = NoFile],
             result |-> ToolResult("Deleted custom tool: " \o Unspell(name), None)]

(***************************************************************************)
(* The server: request workers, the SIGHUP handler, the reload.            *)
(***************************************************************************)
Workers == {"w1"}

\* the directory contents considered: greet.py holds A, zeta.py holds B
Dirs == { d \in [StemSet -> {NoFile, "A", "B"}] :
            d["greet"] \in {NoFile, "A"} /\ d["zeta"] \in {NoFile, "B"} }
CallNames == {"greet", "read_file", "create_tool", "nope"}

Idle == [state |-> "Idle"]
ReloadRequested == [state |-> "ReloadRequested"]

IsLoaded(stem) == \E n \in DOMAIN HANDLERS : HANDLERS[n].mod = stem

CatInit ==
    /\ files \in Dirs
    /\ TOOLS = Build(files).tools
    /\ HANDLERS = Build(files).handlers
    /\ reload = Idle
    /\ calls = [w \in Workers |-> [pc |-> "idle"]]
    /\ story = "none"

\* meta._create_tool runs (a direct call: meta.HANDLERS is not merged into
\* the registry)
CreateToolLoadsMutant ==
    /\ \E a \in CreateArgs :
          LET r == _create_tool(files, a[1], a[2])
          IN /\ files' = r.files
             /\ TOOLS' = Build(r.files).tools
             /\ HANDLERS' = Build(r.files).handlers
             /\ story' = IF r.result.error = None /\ Strip(a[1]) = Spell("greet")
                         THEN "none" ELSE story
    /\ UNCHANGED <<reload, calls>>

CreateTool ==
    /\ \E a \in CreateArgs :
          LET r == _create_tool(files, a[1], a[2])
          IN /\ files' = r.files
             /\ story' = IF r.result.error = None /\ Strip(a[1]) = Spell("greet")
                         THEN "none" ELSE story
    /\ UNCHANGED <<TOOLS, HANDLERS, reload, calls>>

\* meta._delete_tool runs
DeleteTool ==
    /\ \E n \in ArgNames :
          LET r == _delete_tool(files, n)
          IN /\ files' = r.files
             /\ story' = IF r.result.error = None /\ Strip(n) = Spell("greet")
                            /\ IsLoaded("greet")
                         THEN "deleted" ELSE story
    /\ UNCHANGED <<TOOLS, HANDLERS, reload, calls>>

\* SIGHUP is delivered (meta._reload_tools sends it with os.kill, or an
\* operator does): _handle_sighup is entered
Sighup ==
    /\ reload = Idle
    /\ reload' = ReloadRequested
    /\ UNCHANGED <<files, TOOLS, HANDLERS, calls, story>>

\* reload_tools: scan the directory and build the next generation
Rebuild ==
    /\ reload = ReloadRequested
    /\ reload' = [state |-> "Rebuilding", pending |-> Build(files),
                  after |-> (story = "deleted")]
    /\ UNCHANGED <<files, TOOLS, HANDLERS, calls, story>>

\* reload_tools: replace the active generation in one step
Swap ==
    /\ reload.state = "Rebuilding"
    /\ TOOLS' = reload.pending.tools
    /\ HANDLERS' = reload.pending.handlers
    /\ reload' = Idle
    /\ story' = IF reload.after /\ story = "deleted" THEN "reloaded" ELSE story
    /\ UNCHANGED <<files, calls>>

\* reload_tools: the rebuild fails (the plugin directory cannot be read);
\* the generation built so far is dropped
RebuildFailMutant ==
    /\ reload.state = "Rebuilding"
    /\ TOOLS' = _CORE_TOOLS
    /\ HANDLERS' = _CORE_HANDLERS
    /\ reload' = Idle
    /\ UNCHANGED <<files, calls, story>>

RebuildFail ==
    /\ reload.state = "Rebuilding"
    /\ reload' = Idle
    /\ UNCHANGED <<files, TOOLS, HANDLERS, calls, story>>

\* call_tool, first half: handler = HANDLERS.get(name); a miss returns
Lookup(w) ==
    /\ \E name \in CallNames :
          calls' = [calls EXCEPT ![w] =
             IF name \in DOMAIN HANDLERS
             THEN [pc |-> "invoking", op |-> "call_tool", name |-> name,
                   handler |-> HANDLERS[name], used |-> NoHandler,
                   outcome |-> NoOutcome, result |-> NoOutcome,
                   story |-> story]
             ELSE [pc |-> "done", op |-> "call_tool", name |-> name,
                   handler |-> NoHandler, used |-> NoHandler,
                   outcome |-> NoOutcome, result |-> Ret(UnknownTool(name)),
                   story |-> story]]
    /\ UNCHANGED <<files, TOOLS, HANDLERS, reload, story>>

CallLookup(w) ==
    /\ calls[w].pc \in {"idle", "done"}
    /\ Lookup(w)

\* the handler call_tool invokes: its local variable `handler`
HandlerAtInvokeMutant(w) ==
    IF calls[w].name \in DOMAIN HANDLERS THEN HANDLERS[calls[w].name]
    ELSE calls[w].handler

HandlerAtInvoke(w) == calls[w].handler

\* call_tool, second half: return handler(arguments), exceptions caught
CallInvoke(w) ==
    /\ calls[w].pc = "invoking"
    /\ \E o \in Outcomes(HandlerAtInvoke(w)) :
          calls' = [calls EXCEPT ![w] =
             [@ EXCEPT !.pc = "done", !.used = HandlerAtInvoke(w),
                       !.outcome = o, !.result = Catch(o)]]
    /\ UNCHANGED <<files, TOOLS, HANDLERS, reload, story>>

\* get_tool_definitions: return TOOLS
GetToolDefinitions(w) ==
    /\ calls[w].pc \in {"idle", "done"}
    /\ calls' = [calls EXCEPT ![w] =
          [pc |-> "done", op |-> "get_tool_definitions", name |-> None,
           handler |-> NoHandler, used |-> NoHandler, outcome |-> NoOutcome,
           result |-> Ret(TOOLS), story |-> story]]
    /\ UNCHANGED <<files, TOOLS, HANDLERS, reload, story>>

PathFixed ==
    /\ links = [p \in {AliasDir} |-> VaultDir]
    /\ vaultArg = VaultDir
    /\ _VAULT_PATH = VaultDir
    /\ relative = <<>>
    /\ spResult = [kind |-> "nocall"]
    /\ toolRun = [tool |-> None]

NoAdmin == [op |-> None]
NoReloadCall == [pc |-> "idle", signal |-> "none", prev |-> "none", result |-> NoOutcome]

\* the server is up, no administrative call has been made
AdminFixed ==
    /\ boot = "up"
    /\ admin = NoAdmin
    /\ scan = [listing |-> <<>>, executed |-> <<>>, done |-> FALSE]

SigFixed == rt = NoReloadCall

\* no call of a guard of tools/meta.py has been followed
NoName == [op |-> None]

GuardFixed ==
    /\ source = <<>>
    /\ verdict = NoOutcome
    /\ named = NoName

\* the request threads that may run _create_tool side by side
Threads == {"t1", "t2"}

NoCreators == [t \in Threads |-> [pc |-> "idle"]]

RaceFixed == creators = NoCreators

Init == CatInit /\ PathFixed /\ AdminFixed /\ SigFixed /\ GuardFixed /\ RaceFixed

Next ==
    \/ CreateTool /\ UNCHANGED <<pathVars, adminVars, sigVars, guardVars, raceVars>>
    \/ DeleteTool /\ UNCHANGED <<pathVars, adminVars, sigVars, guardVars, raceVars>>
    \/ Sighup /\ UNCHANGED <<pathVars, adminVars, sigVars, guardVars, raceVars>>
    \/ Rebuild /\ UNCHANGED <<pathVars, adminVars, sigVars, guardVars, raceVars>>
    \/ Swap /\ UNCHANGED <<pathVars, adminVars, sigVars, guardVars, raceVars>>
    \/ RebuildFail /\ UNCHANGED <<pathVars, adminVars, sigVars, guardVars, raceVars>>
    \/ \E w \in Workers : CallLookup(w) /\ UNCHANGED <<pathVars, adminVars, sigVars, guardVars, raceVars>>
    \/ \E w \in Workers : CallInvoke(w) /\ UNCHANGED <<pathVars, adminVars, sigVars, guardVars, raceVars>>
    \/ \E w \in Workers : GetToolDefinitions(w) /\ UNCHANGED <<pathVars, adminVars, sigVars, guardVars, raceVars>>

Spec == Init /\ [][Next]_vars

(***************************************************************************)
(* The path guard on its own.                                              *)
(***************************************************************************)
NoCall == [kind |-> "nocall"]
NoToolRun == [tool |-> None]

PathStart ==
    /\ links \in LinkConfigs
    /\ vaultArg \in {VaultDir, AliasDir}
    /\ _VAULT_PATH = None
    /\ relative \in Strings
    /\ spResult = NoCall
    /\ toolRun = NoToolRun

CatFixed ==
    /\ files = [s \in StemSet |-> NoFile]
    /\ TOOLS = Build(files).tools
    /\ HANDLERS = Build(files).handlers
    /\ reload = Idle
    /\ calls = [w \in Workers |-> [pc |-> "idle"]]
    /\ story = "none"

\* main(): init_security(vault_path, auth_token), once, before serving
InitSecurity ==
    /\ _VAULT_PATH = None
    /\ _VAULT_PATH' = init_security_value(vaultArg)
    /\ UNCHANGED <<links, vaultArg, relative, spResult, toolRun>>

\* a tool handler calls safe_path(relative) while the server is serving
SafePathCall ==
    /\ _VAULT_PATH # None
    /\ spResult = NoCall
    /\ spResult' = safe_path(relative)
    /\ UNCHANGED <<links, vaultArg, _VAULT_PATH, relative, toolRun>>

\* what a built-in handler does with the value safe_path gave it: the
\* outcome of the handler, and the locations it read and wrote (None when
\* it touched nothing).  An exception of safe_path leaves the handler.
Ran(tool, o, rd, wr) == [tool |-> tool, outcome |-> o, read |-> rd, written |-> wr]

\* files._read_file
_read_file(sp) ==
    IF sp.kind = "raise" THEN Ran("read_file", Raise(sp.exc, ""), None, None)
    ELSE IF sp.kind = None
    THEN Ran("read_file", Ret(ToolResult("", "Invalid path")), None, None)
    ELSE Ran("read_file", Ret(ToolResult("file content", None)), sp.path, None)

\* files._write_file
_write_file(sp) ==
    IF sp.kind = "raise" THEN Ran("write_file", Raise(sp.exc, ""), None, None)
    ELSE IF sp.kind = None
    THEN Ran("write_file", Ret(ToolResult("", "Invalid path")), None, None)
    ELSE Ran("write_file", Ret(ToolResult("Written", None)), None, sp.path)

\* search._search with a query: `if not search_path: search_path =
\* get_vault_path()`, then every file under search_path is read
_search(sp) ==
    IF sp.kind = "raise" THEN Ran("search", Raise(sp.exc, ""), None, None)
    ELSE IF sp.kind = None
    THEN Ran("search", Ret(ToolResult("matches", None)), get_vault_path.path, None)
    ELSE Ran("search", Ret(ToolResult("matches", None)), sp.path, None)

\* the handler goes on after its safe_path call, up to its return
ReadFile ==
    /\ spResult # NoCall /\ toolRun = NoToolRun
    /\ toolRun' = _read_file(spResult)
    /\ UNCHANGED <<links, vaultArg, _VAULT_PATH, relative, spResult>>

WriteFile ==
    /\ spResult # NoCall /\ toolRun = NoToolRun
    /\ toolRun' = _write_file(spResult)
    /\ UNCHANGED <<links, vaultArg, _VAULT_PATH, relative, spResult>>

Search ==
    /\ spResult # NoCall /\ toolRun = NoToolRun
    /\ toolRun' = _search(spResult)
    /\ UNCHANGED <<links, vaultArg, _VAULT_PATH, relative, spResult>>

PathNext ==
    \/ InitSecurity /\ UNCHANGED <<catVars, adminVars, sigVars, guardVars, raceVars>>
    \/ SafePathCall /\ UNCHANGED <<catVars, adminVars, sigVars, guardVars, raceVars>>
    \/ ReadFile /\ UNCHANGED <<catVars, adminVars, sigVars, guardVars, raceVars>>
    \/ WriteFile /\ UNCHANGED <<catVars, adminVars, sigVars, guardVars, raceVars>>
    \/ Search /\ UNCHANGED <<catVars, adminVars, sigVars, guardVars, raceVars>>

PathInit == PathStart /\ CatFixed /\ AdminFixed /\ SigFixed /\ GuardFixed /\ RaceFixed

PathSpec == PathInit /\ [][PathNext]_vars

(***************************************************************************)
(* The plugin directory and the start of the server.  The directory is     *)
(* created and written by create_tool only (meta._ensure_custom_dir), so   *)
(* the files it holds are sources create_tool accepts.  The tools package  *)
(* builds its catalog when the server imports it.                          *)
(***************************************************************************)
PluginCodes == {c \in CodeIds : _validate_tool_code(c) = None}

PluginDirs == [StemSet -> {NoFile} \cup PluginCodes]

PluginStart ==
    /\ files \in PluginDirs
    /\ TOOLS = <<>>
    /\ HANDLERS = EmptyMap
    /\ boot = "down"
    /\ admin = NoAdmin
    /\ scan = [listing |-> <<>>, executed |-> <<>>, done |-> FALSE]
    /\ reload = Idle
    /\ calls = [w \in Workers |-> [pc |-> "idle"]]
    /\ story = "none"

\* meta._create_tool is called with any name and any source
AdminCreate ==
    /\ \E n \in ArgNames, c \in CodeIds :
          LET r == _create_tool(files, n, c)
          IN /\ files' = r.files
             /\ admin' = [op |-> "create_tool", name |-> n, code |-> c,
                          before |-> files, result |-> r.result,
                          loaded |-> FALSE]
    /\ UNCHANGED <<TOOLS, HANDLERS, reload, calls, story, boot, scan>>

\* meta._delete_tool is called with any name
AdminDelete ==
    /\ \E n \in ArgNames :
          LET r == _delete_tool(files, n)
          IN /\ files' = r.files
             /\ admin' = [op |-> "delete_tool", name |-> n, code |-> None,
                          before |-> files, result |-> r.result,
                          loaded |-> FALSE]
    /\ UNCHANGED <<TOOLS, HANDLERS, reload, calls, story, boot, scan>>

\* server.py imports the tools package: _load_custom_tools() runs, then
\* TOOLS and HANDLERS are bound; an exception leaving it ends the process
ImportTools ==
    /\ boot = "down"
    /\ LET o == BuildOutcome(files)
       IN IF o.kind = "return"
          THEN /\ TOOLS' = o.value.tools
               /\ HANDLERS' = o.value.handlers
               /\ boot' = "up"
          ELSE /\ boot' = "crashed"
               /\ UNCHANGED <<TOOLS, HANDLERS>>
    /\ admin' = IF admin = NoAdmin THEN admin ELSE [admin EXCEPT !.loaded = TRUE]
    /\ UNCHANGED <<files, reload, calls, story, scan>>

PluginNext ==
    \/ AdminCreate /\ UNCHANGED <<pathVars, sigVars, guardVars, raceVars>>
    \/ AdminDelete /\ UNCHANGED <<pathVars, sigVars, guardVars, raceVars>>
    \/ ImportTools /\ UNCHANGED <<pathVars, sigVars, guardVars, raceVars>>

PluginInit == PluginStart /\ PathFixed /\ SigFixed /\ GuardFixed /\ RaceFixed

PluginSpec == PluginInit /\ [][PluginNext]_vars

(***************************************************************************)
(* reload_tools() and the SIGHUP handler.  Flask serves each request in a  *)
(* thread of its own (app.run); Python runs a signal handler in the main   *)
(* thread.  Nothing orders the return of _reload_tools in the request      *)
(* thread and the run of _handle_sighup in the main thread.                *)
(*   rt.signal   what became of the SIGHUP the call sent: "none" (not      *)
(*               sent), "pending", "entered" (_handle_sighup entered),     *)
(*               "rebuilding", "swapped", "failed"                         *)
(*   rt.prev     rt.signal of the call before this one                     *)
(***************************************************************************)
ReloadAck == ToolResult("Reload signal sent. Tools will be reloaded.", None)

\* meta._reload_tools: what it returns; sent = os.kill did not raise
ReloadResultMutant(sent) ==
    IF sent /\ rt.signal # "failed" THEN ReloadAck
    ELSE ToolResult("", "Failed to send reload signal")

_reload_tools(sent) ==
    IF sent THEN ReloadAck
    ELSE ToolResult("", "Failed to send reload signal")

\* _reload_tools, first half: os.kill(os.getpid(), signal.SIGHUP); when it
\* raises, the except branch returns at once.  One reload is followed at a
\* time: the next call starts when the signal of the last one is settled.
ReloadToolsKill ==
    /\ rt.pc \in {"idle", "returned"}
    /\ rt.signal \in {"none", "swapped", "failed"}
    /\ \E sent \in BOOLEAN :
          rt' = IF sent
                THEN [pc |-> "killed", signal |-> "pending", prev |-> rt.signal,
                      result |-> NoOutcome]
                ELSE [pc |-> "returned", signal |-> "none", prev |-> rt.signal,
                      result |-> Ret(_reload_tools(FALSE))]
    /\ UNCHANGED catVars

\* _reload_tools, second half: return the acknowledgement
ReloadToolsReturn ==
    /\ rt.pc = "killed"
    /\ rt' = [rt EXCEPT !.pc = "returned", !.result = Ret(_reload_tools(TRUE))]
    /\ UNCHANGED catVars

\* the main thread runs _handle_sighup for the signal of the call
SighupOfCall ==
    /\ rt.signal = "pending"
    /\ Sighup
    /\ rt' = [rt EXCEPT !.signal = "entered"]

RebuildOfCall ==
    /\ Rebuild
    /\ rt' = [rt EXCEPT !.signal = "rebuilding"]

SwapOfCall ==
    /\ Swap
    /\ rt' = [rt EXCEPT !.signal = "swapped"]

RebuildFailOfCall ==
    /\ RebuildFail
    /\ rt' = [rt EXCEPT !.signal = "failed"]

\* The main thread.  app.run() accepts connections in the main thread and
\* hands each request to a thread of its own; Python runs _handle_sighup in
\* the main thread as well, so from its entry until reload_tools() has
\* returned the main thread accepts nothing.
InHandler == reload # Idle

\* a client connects: the request waits in the listen queue
Arrive(w) ==
    /\ calls[w].pc \in {"idle", "done"}
    /\ calls' = [calls EXCEPT ![w] = [pc |-> "queued"]]
    /\ UNCHANGED <<files, TOOLS, HANDLERS, reload, story>>

\* the accept loop takes the connection and starts the request thread
Accept(w) ==
    /\ calls[w].pc = "queued"
    /\ ~InHandler
    /\ calls' = [calls EXCEPT ![w] = [pc |-> "accepted"]]
    /\ UNCHANGED <<files, TOOLS, HANDLERS, reload, story>>

\* the request thread enters call_tool
ServeLookup(w) ==
    /\ calls[w].pc = "accepted"
    /\ Lookup(w)

ReloadNext ==
    \/ CreateTool /\ UNCHANGED <<pathVars, adminVars, sigVars, guardVars, raceVars>>
    \/ ReloadToolsKill /\ UNCHANGED <<pathVars, adminVars, guardVars, raceVars>>
    \/ ReloadToolsReturn /\ UNCHANGED <<pathVars, adminVars, guardVars, raceVars>>
    \/ SighupOfCall /\ UNCHANGED <<pathVars, adminVars, guardVars, raceVars>>
    \/ RebuildOfCall /\ UNCHANGED <<pathVars, adminVars, guardVars, raceVars>>
    \/ SwapOfCall /\ UNCHANGED <<pathVars, adminVars, guardVars, raceVars>>
    \/ RebuildFailOfCall /\ UNCHANGED <<pathVars, adminVars, guardVars, raceVars>>
    \/ \E w \in Workers : Arrive(w) /\ UNCHANGED <<pathVars, adminVars, sigVars, guardVars, raceVars>>
    \/ \E w \in Workers : Accept(w) /\ UNCHANGED <<pathVars, adminVars, sigVars, guardVars, raceVars>>
    \/ \E w \in Workers : ServeLookup(w) /\ UNCHANGED <<pathVars, adminVars, sigVars, guardVars, raceVars>>
    \/ \E w \in Workers : CallInvoke(w) /\ UNCHANGED <<pathVars, adminVars, sigVars, guardVars, raceVars>>

ReloadInit == CatInit /\ PathFixed /\ AdminFixed /\ SigFixed /\ GuardFixed /\ RaceFixed

ReloadSpec == ReloadInit /\ [][ReloadNext]_vars

(***************************************************************************)
(* The scan on its own: the directory may hold any file, also _x.py and    *)
(* files that export one of TOOLS and HANDLERS only; glob yields the files *)
(* in any order.  The scan runs at import and again at every reload.       *)
(***************************************************************************)
ScanDirs == [ScanStemSet -> {NoFile} \cup ScanCodes]

NoScan == [listing |-> <<>>, executed |-> <<>>, done |-> FALSE]

ScanStart ==
    /\ files \in ScanDirs
    /\ TOOLS = <<>>
    /\ HANDLERS = EmptyMap
    /\ boot = "down"
    /\ admin = NoAdmin
    /\ scan = NoScan
    /\ reload = Idle
    /\ calls = [w \in Workers |-> [pc |-> "idle"]]
    /\ story = "none"

\* _load_custom_tools() runs and TOOLS, HANDLERS are bound; a SystemExit
\* of a plugin ends the import before they are
ScanDir ==
    /\ \E l \in Listings(files) :
          LET custom == Scan(files, l)
          IN /\ scan' = [listing |-> l, executed |-> custom.executed,
                         done |-> TRUE]
             /\ IF custom.raised # None
                THEN boot' = "crashed" /\ UNCHANGED <<TOOLS, HANDLERS>>
                ELSE /\ boot' = "up"
                     /\ TOOLS' = _CORE_TOOLS \o custom.tools
                     /\ HANDLERS' = Merge(_CORE_HANDLERS, custom.handlers)
    /\ UNCHANGED <<files, reload, calls, story, admin>>

ScanNext == ScanDir /\ UNCHANGED <<pathVars, sigVars, guardVars, raceVars>>

ScanInit == ScanStart /\ PathFixed /\ SigFixed /\ GuardFixed /\ RaceFixed

ScanSpec == ScanInit /\ [][ScanNext]_vars


(***************************************************************************)
(* ValidateSpec: meta._validate_tool_code over source texts.  A text is a  *)
(* sequence of lines, each of one of these kinds:                          *)
(*   TOOLS       TOOLS = [...]           HANDLERS   HANDLERS = {...}       *)
(*   os.system   os.system("id")         subprocess import subprocess      *)
(*   unclosed    a line compile() rejects with SyntaxError, like  f(       *)
(*   surrogate   a line holding a lone surrogate, like  s = "\ud800" as it *)
(*               arrives from JSON: compile() cannot encode the text and   *)
(*               raises UnicodeEncodeError, a ValueError                   *)
(*   pass        any other statement                                       *)
(* No line kind holds the text of another one.                             *)
(***************************************************************************)
Lines == {"TOOLS", "HANDLERS", "os.system", "subprocess", "unclosed",
          "surrogate", "pass"}

MaxLines == 4

Texts == UNION {[1..n -> Lines] : n \in 0..MaxLines}

\* the first two entries of meta.FORBIDDEN_PATTERNS, in the order of the list
FORBIDDEN_PATTERNS == <<"os.system", "subprocess">>

\* `word in code`, re.search(pattern, code)
HasLine(text, word) == \E i \in DOMAIN text : text[i] = word

\* the loop over FORBIDDEN_PATTERNS: the first pattern found, or None
RECURSIVE FirstForbidden(_, _)
FirstForbidden(text, i) ==
    IF i > Len(FORBIDDEN_PATTERNS) THEN None
    ELSE IF HasLine(text, FORBIDDEN_PATTERNS[i]) THEN FORBIDDEN_PATTERNS[i]
    ELSE FirstForbidden(text, i + 1)

\* compile(code, "<custom_tool>", "exec"): the text is encoded, then parsed
compile(text) ==
    IF HasLine(text, "surrogate") THEN "UnicodeEncodeError"
    ELSE IF HasLine(text, "unclosed") THEN "SyntaxError"
    ELSE "ok"

ValidateTextOrderMutant(text) ==
    IF text = <<>> THEN Ret("Code is required")
    ELSE IF FirstForbidden(text, 1) # None
    THEN Ret("Forbidden pattern detected: " \o FirstForbidden(text, 1))
    ELSE IF ~HasLine(text, "TOOLS") THEN Ret("Code must define TOOLS list")
    ELSE IF ~HasLine(text, "HANDLERS") THEN Ret("Code must define HANDLERS dict")
    ELSE IF compile(text) = "SyntaxError" THEN Ret("Syntax error")
    ELSE IF compile(text) # "ok" THEN Raise(compile(text), "")
    ELSE Ret(None)

\* meta._validate_tool_code on a text: only SyntaxError is caught around
\* compile()
ValidateToolCodeText(text) ==
    IF text = <<>> THEN Ret("Code is required")
    ELSE IF ~HasLine(text, "TOOLS") THEN Ret("Code must define TOOLS list")
    ELSE IF ~HasLine(text, "HANDLERS") THEN Ret("Code must define HANDLERS dict")
    ELSE IF FirstForbidden(text, 1) # None
    THEN Ret("Forbidden pattern detected: " \o FirstForbidden(text, 1))
    ELSE IF compile(text) = "SyntaxError" THEN Ret("Syntax error")
    ELSE IF compile(text) # "ok" THEN Raise(compile(text), "")
    ELSE Ret(None)

ValidateStart ==
    /\ source \in Texts
    /\ verdict = NoOutcome
    /\ named = NoName

\* _validate_tool_code(source) is called and ends
Validate ==
    /\ verdict = NoOutcome
    /\ verdict' = ValidateToolCodeText(source)
    /\ UNCHANGED <<source, named>>

ValidateNext == Validate /\ UNCHANGED <<pathVars, catVars, adminVars, sigVars, raceVars>>

ValidateInit ==
    ValidateStart /\ PathFixed /\ CatFixed /\ AdminFixed /\ SigFixed /\ RaceFixed

ValidateSpec == ValidateInit /\ [][ValidateNext]_vars


(***************************************************************************)
(* NameSpec: the file a create_tool or delete_tool call addresses, over    *)
(* every short name argument.  Only the name is followed here: the code    *)
(* argument is one that passes validation and the directory is empty.      *)
(***************************************************************************)
NameChars == {"a", "1", "_", "/", ".", " ", "LF"}

MaxName == 4

RawNames == UNION {[1..n -> NameChars] : n \in 0..MaxName}

\* meta.CUSTOM_TOOLS_DIR = Path.home() / ".ludolph" / "custom_tools"
CUSTOM_TOOLS_DIR == << <<"home">>, <<".ludolph">>, <<"custom_tools">> >>

DotPy == <<".", "p", "y">>

\* custom_dir / f"{name}.py" once the name has passed _validate_tool_name;
\* no path when the call returns the name error before it builds one
FilePathOf(rawname) ==
    LET name == Strip(rawname)
    IN IF _validate_tool_name(name) # None THEN <<>>
       ELSE JoinPath(CUSTOM_TOOLS_DIR, name \o DotPy)

NameStart ==
    /\ named \in {[op |-> None, name |-> n, accepted |-> FALSE, path |-> <<>>] :
                      n \in RawNames}
    /\ source = <<>>
    /\ verdict = NoOutcome

NameCall(op) ==
    /\ named.op = None
    /\ named' = [op |-> op, name |-> named.name,
                 accepted |-> _validate_tool_name(Strip(named.name)) = None,
                 path |-> FilePathOf(named.name)]
    /\ UNCHANGED <<source, verdict>>

\* _create_tool up to file_path.write_text
NameCreate == NameCall("create_tool")

\* _delete_tool up to file_path.unlink
NameDelete == NameCall("delete_tool")

NameNext ==
    \/ NameCreate /\ UNCHANGED <<pathVars, catVars, adminVars, sigVars, raceVars>>
    \/ NameDelete /\ UNCHANGED <<pathVars, catVars, adminVars, sigVars, raceVars>>

NameInit ==
    NameStart /\ PathFixed /\ CatFixed /\ AdminFixed /\ SigFixed /\ RaceFixed

NameSpec == NameInit /\ [][NameNext]_vars

\* custom_dir.glob("*.py") lists the path: a direct child of the plugin
\* directory whose name ends in ".py"
Globbed(path) ==
    /\ Len(path) = Len(CUSTOM_TOOLS_DIR) + 1
    /\ SubSeq(path, 1, Len(CUSTOM_TOOLS_DIR)) = CUSTOM_TOOLS_DIR
    /\ LET file == path[Len(path)]
       IN /\ Len(file) >= Len(DotPy)
          /\ SubSeq(file, Len(file) - Len(DotPy) + 1, Len(file)) = DotPy

\* py_file.name.startswith("_")
Skipped(path) == Head(path[Len(path)]) = "_"


(***************************************************************************)
(* RaceSpec: _create_tool in two request threads.  Flask serves every      *)
(* request in a thread of its own, and nothing in _create_tool holds a     *)
(* lock, so the threads interleave between file_path.exists() and          *)
(* file_path.write_text().  write_text is taken as one step.               *)
(***************************************************************************)
RaceNames == {Spell("greet"), Spell("zeta")}

RaceCodes == {"A", "B", "D"}

RaceStart ==
    /\ files \in [StemSet -> {NoFile, "A"}]
    /\ creators \in [Threads -> {[pc |-> "idle", name |-> n, code |-> c, result |-> None] :
                                   n \in RaceNames, c \in RaceCodes}]
    /\ TOOLS = _CORE_TOOLS
    /\ HANDLERS = _CORE_HANDLERS
    /\ reload = Idle
    /\ calls = [w \in Workers |-> [pc |-> "idle"]]
    /\ story = "none"

\* _create_tool from its entry to the test of file_path.exists()
CreateCheck(t) ==
    /\ creators[t].pc = "idle"
    /\ LET whole == _create_tool(files, creators[t].name, creators[t].code)
       IN creators' = [creators EXCEPT ![t] =
              IF whole.result.error # None
              THEN [@ EXCEPT !.pc = "done", !.result = whole.result]
              ELSE [@ EXCEPT !.pc = "checked"]]
    /\ UNCHANGED <<files, TOOLS, HANDLERS, reload, calls, story>>

\* file_path.write_text(code) and the return of the success result
CreateWrite(t) ==
    /\ creators[t].pc = "checked"
    /\ LET stem == Unspell(Strip(creators[t].name))
       IN /\ files' = [files EXCEPT ![stem] = creators[t].code]
          /\ creators' = [creators EXCEPT ![t] =
                 [@ EXCEPT !.pc = "done",
                           !.result = ToolResult("Created custom tool: " \o stem, None)]]
    /\ UNCHANGED <<TOOLS, HANDLERS, reload, calls, story>>

RaceNext ==
    \/ \E t \in Threads : CreateCheck(t) /\ UNCHANGED <<pathVars, adminVars, sigVars, guardVars>>
    \/ \E t \in Threads : CreateWrite(t) /\ UNCHANGED <<pathVars, adminVars, sigVars, guardVars>>

RaceInit == RaceStart /\ PathFixed /\ AdminFixed /\ SigFixed /\ GuardFixed

RaceSpec == RaceInit /\ [][RaceNext]_vars

(***************************************************************************)
(* Properties of the path guard (checked under PathSpec).                  *)
(***************************************************************************)
Returned == spResult # NoCall

IsPrefix(p, q) == Len(p) <= Len(q) /\ SubSeq(q, 1, Len(p)) = p

\* where the joined path really is: the vault root followed by `relative`,
\* or `relative` alone when it is absolute, with every link followed
RealLocation == Walk(<<>>, JoinPath(VaultDir, relative))

\* C1: every string containing ".." anywhere, also inside a file name, is
\* rejected with None, whatever the links of the file system are.
C1_DotDotRejected ==
    (Returned /\ Contains(relative, DotDot)) => spResult = [kind |-> None]

C1_Witness ==
    /\ relative = <<"a", ".", ".", "a">>
    /\ spResult = [kind |-> None]

\* C2: a returned path is the vault root or below it; a path through a link
\* that leaves the vault, and an absolute path outside the vault, are
\* rejected.
C2_ResultInVault ==
    /\ (Returned /\ spResult.kind = "path") =>
          /\ IsPrefix(VaultDir, spResult.path)
          /\ \A i \in 1..Len(spResult.path) :
                SubSeq(spResult.path, 1, i) \notin DOMAIN links
    /\ (Returned /\ ~HasNul(Parts(relative)) /\ ~IsPrefix(VaultDir, RealLocation)) =>
          spResult = [kind |-> None]

C2_Witness ==
    /\ relative = <<"l", "/", "a">>
    /\ LinkInVault \in DOMAIN links
    /\ links[LinkInVault] = OutsideDir
    /\ spResult = [kind |-> None]

\* C3: safe_path("") and safe_path(".") both return exactly the canonical
\* vault root init_security stored, hence the same path.
C3_EmptyAndDot ==
    (Returned /\ relative \in {<<>>, Dot}) =>
        /\ spResult = [kind |-> "path", path |-> _VAULT_PATH]
        /\ _VAULT_PATH = VaultDir

C3_Witness ==
    /\ relative = Dot
    /\ vaultArg = AliasDir
    /\ spResult = [kind |-> "path", path |-> VaultDir]

\* C4: safe_path never raises: every call ends with a path or None.
C4_NeverRaises == Returned => spResult.kind \in {"path", None}

\* the result call_tool hands back for the handler run
CallResult == Catch(toolRun.outcome)

\* C21: when safe_path rejects the path argument of a built-in tool, the
\* call_tool result is the error "Invalid path" and the handler reads and
\* writes no location.
C21_RejectedPathIsAnError ==
    (toolRun # NoToolRun /\ spResult = [kind |-> None]) =>
        /\ CallResult = Ret(ToolResult("", "Invalid path"))
        /\ toolRun.read = None
        /\ toolRun.written = None

(***************************************************************************)
(* Properties of the dispatcher and the reload (checked under Spec).       *)
(***************************************************************************)
Done(w) == calls[w].pc = "done" /\ calls[w].op = "call_tool"

IsToolResult(v) ==
    /\ DOMAIN v = {"content", "error"}
    /\ v.content \in STRING
    /\ v.error # None => v.content = ""

\* C5: a name with no handler in the active catalog gets exactly
\* {content: "", error: "Unknown tool: <name>"} and no handler is invoked.
C5_UnknownTool ==
    /\ \A w \in Workers :
        (Done(w) /\ calls[w].handler = NoHandler) =>
            /\ calls[w].result =
                  Ret([content |-> "", error |-> "Unknown tool: " \o calls[w].name])
            /\ calls[w].used = NoHandler
            /\ calls[w].outcome = NoOutcome
    /\ \A w \in Workers :
        (Done(w) /\ calls[w].name \notin UNION {DOMAIN Build(d).handlers : d \in Dirs}) =>
            calls[w].handler = NoHandler

C5_Witness ==
    \E w \in Workers :
        /\ Done(w)
        /\ calls[w].name = "nope"
        /\ calls[w].result = Ret([content |-> "", error |-> "Unknown tool: nope"])

C7_AlwaysToolResult ==
    \A w \in Workers :
        Done(w) => /\ calls[w].result.kind = "return"
                   /\ IsToolResult(calls[w].result.value)

C9_CreateThroughCallTool ==
    \A w \in Workers :
        (Done(w) /\ calls[w].name = "create_tool") =>
            /\ calls[w].used # NoHandler
            /\ calls[w].result # Ret(UnknownTool("create_tool"))

\* C10 as stated: after greet.py, loaded, was deleted and a following
\* reload completed, call_tool("greet", {}) returns "Unknown tool: greet".
C10_UnknownAfterDelete ==
    \A w \in Workers :
        (Done(w) /\ calls[w].name = "greet" /\ calls[w].story = "reloaded") =>
            calls[w].result = Ret(UnknownTool("greet"))

\* C10 amended: after that reload no handler of the deleted module is
\* dispatchable; call_tool("greet", {}) returns "Unknown tool: greet" unless
\* another plugin file binds the name greet, whose handler then answers.
C10_DeletedModuleGone ==
    /\ story = "reloaded" => ~IsLoaded("greet")
    /\ \A w \in Workers :
          (calls[w].pc \in {"invoking", "done"} /\ calls[w].op = "call_tool"
              /\ calls[w].name = "greet" /\ calls[w].story = "reloaded") =>
             \/ /\ calls[w].handler = NoHandler
                /\ calls[w].result = Ret(UnknownTool("greet"))
             \/ /\ calls[w].handler # NoHandler
                /\ calls[w].handler.mod \in StemSet \ {"greet"}

C10_Witness ==
    \E w \in Workers :
        /\ Done(w)
        /\ calls[w].name = "greet"
        /\ calls[w].story = "reloaded"
        /\ calls[w].result = Ret(UnknownTool("greet"))

(***************************************************************************)
(* Properties of the administrative tools and of the loader (checked       *)
(* under PluginSpec).                                                      *)
(***************************************************************************)
Denylisted(c) == Code(c).forbidden # 0

Created == admin.op = "create_tool"
Deleted == admin.op = "delete_tool"
Failed == admin.result.error # None

\* C11: whatever create_tool and delete_tool calls precede the building of
\* a catalog, no tool definition and no handler of the catalog comes from
\* a plugin source that matches an entry of the denylist.
C11_NoDenylistedSource ==
    /\ \A i \in DOMAIN TOOLS :
          TOOLS[i].mod # "core" => ~Denylisted(TOOLS[i].code)
    /\ \A n \in DOMAIN HANDLERS :
          HANDLERS[n].mod # "core" => ~Denylisted(HANDLERS[n].code)

\* create_tool was called with a denylisted source, and a catalog holding
\* plugin tools has been built after that call
C11_Witness ==
    /\ Created /\ Denylisted(admin.code) /\ admin.loaded
    /\ _validate_tool_name(Strip(admin.name)) = None
    /\ boot = "up"
    /\ \E n \in DOMAIN HANDLERS : HANDLERS[n].mod # "core"

ValidName == _validate_tool_name(Strip(admin.name)) = None
Accepted == _validate_tool_code(admin.code) = None
Target == Unspell(Strip(admin.name))

\* C12: when create_tool returns an error (invalid name, source rejected by
\* the validation, or name already taken), the plugin directory holds the
\* same files with the same contents as before the call.
C12_RejectedLeavesNoFile ==
    (Created /\ Failed) => files = admin.before

\* a denylisted source was offered under a valid, free name and rejected
C12_Witness ==
    /\ Created /\ Failed /\ ValidName /\ ~Accepted
    /\ admin.before[Target] = NoFile
    /\ files[Target] = NoFile

\* C13: create_tool with a valid name and an accepted source returns an
\* error and leaves the directory as it was when the file of that name
\* exists; otherwise it succeeds and the directory differs from before in
\* that file only, which holds exactly `code`.
C13_CreateNeverOverwrites ==
    (Created /\ ValidName /\ Accepted) =>
        IF admin.before[Target] # NoFile
        THEN Failed /\ files = admin.before
        ELSE ~Failed /\ files = [admin.before EXCEPT ![Target] = admin.code]

\* create_tool was called on an existing file with a different, accepted
\* source, and the file still holds the old source
C13_Witness ==
    /\ Created /\ ValidName /\ Accepted
    /\ admin.before[Target] \notin {NoFile, admin.code}
    /\ files[Target] = admin.before[Target]

\* C15: delete_tool with a valid name removes the file of that name and
\* returns success when the file exists, and returns the not-found error
\* and changes nothing when it does not; no other file is ever removed.
C15_DeleteRemovesOnlyTarget ==
    (Deleted /\ ValidName) =>
        IF admin.before[Target] # NoFile
        THEN ~Failed /\ files = [admin.before EXCEPT ![Target] = NoFile]
        ELSE /\ admin.result = ToolResult("", "Tool '" \o Target \o "' not found")
             /\ files = admin.before

\* a file was deleted while another plugin's file was present, which is
\* still there
C15_Witness ==
    /\ Deleted /\ ValidName /\ ~Failed
    /\ files[Target] = NoFile
    /\ \E st \in StemSet : st # Target /\ files[st] # NoFile
                                        /\ files[st] = admin.before[st]

\* the catalog is up and was built from the directory as it is now
Fresh == boot = "up" /\ (admin = NoAdmin \/ admin.loaded)

StemIndex(st) == CHOOSE i \in 1..Len(Stems) : Stems[i] = st

Loadable(st) == files[st] # NoFile /\ Code(files[st]).exec = "ok"

\* the plugin files whose HANDLERS export binds the name n
Definers(n) ==
    {st \in StemSet : /\ Loadable(st)
                      /\ Code(files[st]).hasHANDLERS
                      /\ n \in Code(files[st]).HANDLERS}

LastDefiner(n) ==
    CHOOSE st \in Definers(n) :
        \A other \in Definers(n) : StemIndex(other) <= StemIndex(st)

AllNames == CoreNameSet \cup UNION {Code(c).HANDLERS : c \in CodeIds}

\* C18: in a built catalog, a name bound by some plugin is bound to a
\* plugin's handler also when a built-in defines it, and when several
\* plugins bind it the handler is that of the file sorting last.
C18_PluginOverrides ==
    Fresh =>
        \A n \in AllNames :
            Definers(n) # {} =>
                /\ n \in DOMAIN HANDLERS
                /\ HANDLERS[n] = Handler(n, LastDefiner(n), files[LastDefiner(n)])

\* read_file is defined by the built-in set and by two plugin files, and
\* is bound to the handler of the later file
C18_Witness ==
    /\ Fresh
    /\ "read_file" \in CoreNameSet
    /\ Definers("read_file") = StemSet
    /\ HANDLERS["read_file"].mod = Stems[Len(Stems)]

\* the import of the tools package has run on the directory as it is now
Imported == boot # "down" /\ (admin = NoAdmin \/ admin.loaded)

Raising(st) == files[st] # NoFile /\ Code(files[st]).exec = "raises"
Exiting(st) == files[st] # NoFile /\ Code(files[st]).exec = "exits"

\* the built-in tools and every loadable file's tools are listed, and each
\* name a loadable file binds is bound to its handler, or to that of a
\* loadable file sorting later
OthersLoaded ==
    /\ boot = "up"
    /\ SubSeq(TOOLS, 1, Len(_CORE_TOOLS)) = _CORE_TOOLS
    /\ \A st \in StemSet :
          Loadable(st) =>
            /\ \A k \in 1..Len(Code(files[st]).TOOLS) :
                  \E i \in DOMAIN TOOLS :
                     TOOLS[i] = ToolDef(Code(files[st]).TOOLS[k], st, files[st])
            /\ \A n \in Code(files[st]).HANDLERS :
                  /\ n \in DOMAIN HANDLERS
                  /\ \E d \in Definers(n) :
                        /\ StemIndex(d) >= StemIndex(st)
                        /\ HANDLERS[n] = Handler(n, d, files[d])

C14_CatalogChangesOnlyByReload ==
    [][ /\ (files' # files => UNCHANGED <<TOOLS, HANDLERS>>)
        /\ ((TOOLS' # TOOLS \/ HANDLERS' # HANDLERS) =>
               (reload.state = "Rebuilding" /\ reload' = Idle)) ]_vars

\* zeta.py has been created, no reload has run since, and
\* get_tool_definitions has returned the catalog without it
C14_Witness ==
    /\ files["zeta"] # NoFile
    /\ ~IsLoaded("zeta")
    /\ \A i \in DOMAIN TOOLS : TOOLS[i].mod # "zeta"
    /\ \E w \in Workers :
          /\ calls[w].pc = "done"
          /\ calls[w].op = "get_tool_definitions"
          /\ calls[w].result = Ret(TOOLS)

(***************************************************************************)
(* Properties of the reload (checked under ReloadSpec).                    *)
(***************************************************************************)
\* C16 as stated: reload_tools() returns before the rebuild it triggered
\* starts.
C16_ReturnsBeforeRebuild ==
    rt.pc = "killed" => rt.signal \in {"pending", "entered"}

\* C16: the result of reload_tools() never depends on the rebuild: once
\* the signal is sent the call returns the acknowledgement, whether the
\* rebuild has not started, is running, has swapped or has failed.
C16_AckIndependentOfRebuild ==
    (rt.pc = "returned" /\ rt.signal # "none") => rt.result = Ret(ReloadAck)

\* the rebuild triggered by the call has failed, and the call has returned
\* the acknowledgement
C16_Witness ==
    /\ rt.pc = "returned"
    /\ rt.signal = "failed"
    /\ rt.result = Ret(ReloadAck)

AdminNames == {"list_custom_tools", "create_tool", "delete_tool", "reload_tools"}

\* C20: the four administrative tools are entries of the active catalog:
\* each is bound to its handler of meta.py in HANDLERS and listed in TOOLS.
C20_AdminToolsInCatalog ==
    \A n \in AdminNames :
        /\ n \in DOMAIN HANDLERS
        /\ HANDLERS[n].mod = "core"
        /\ \E i \in DOMAIN TOOLS : TOOLS[i].name = n

(***************************************************************************)
(* Properties of the scan (checked under ScanSpec).                        *)
(***************************************************************************)
Hidden(st) == Head(Spell(st)) = "_"

InDir(st) == files[st] # NoFile

\* the files the scan has to execute, in ascending order of file name
Ascending == SelectSeq(ScanStems, LAMBDA st : InDir(st) /\ ~Hidden(st))

\* C22: whatever order glob yields the files in, the scan executes the
\* files whose name does not start with "_" in ascending order of file
\* name (all of them unless one of them ends the process) and no other
\* file, and every other listing of the same directory gives the same
\* definitions and the same handler mapping.
C22_ScanOrder ==
    scan.done =>
        /\ \E k \in 0..Len(Ascending) : scan.executed = SubSeq(Ascending, 1, k)
        /\ boot = "up" => scan.executed = Ascending
        /\ \A l \in Listings(files) :
              /\ Scan(files, l) = Scan(files, scan.listing)
              /\ boot = "up" =>
                    /\ TOOLS = _CORE_TOOLS \o Scan(files, l).tools
                    /\ HANDLERS = Merge(_CORE_HANDLERS, Scan(files, l).handlers)

\* glob yielded zeta.py, greet.py, _x.py in descending order; greet.py and
\* zeta.py both bind greet, _x.py holds a loadable source
C22_Witness ==
    /\ scan.done
    /\ scan.listing = <<"zeta", "greet", "_x">>
    /\ files = [_x |-> "A", greet |-> "A", zeta |-> "B"]
    /\ scan.executed = <<"greet", "zeta">>
    /\ HANDLERS["greet"].mod = "zeta"

\* C25: the names of the tool definitions of a catalog are pairwise
\* distinct.
C25_DistinctToolNames ==
    \A i, j \in DOMAIN TOOLS : TOOLS[i].name = TOOLS[j].name => i = j

\* C26: a module with only one of the exports TOOLS and HANDLERS adds
\* neither definitions nor handlers, and every listed tool name has a
\* handler in the same catalog.
C26_BothExportsOrNothing ==
    scan.done =>
        /\ \A st \in ScanStemSet :
              (InDir(st) /\ Code(files[st]).hasTOOLS # Code(files[st]).hasHANDLERS) =>
                  /\ \A i \in DOMAIN TOOLS : TOOLS[i].mod # st
                  /\ \A n \in DOMAIN HANDLERS : HANDLERS[n].mod # st
        /\ \A i \in DOMAIN TOOLS : TOOLS[i].name \in DOMAIN HANDLERS

\* the loading of the file failed: exec_module raised, or the merge of its
\* exports did
LoadFailed(st) ==
    /\ InDir(st) /\ ~Hidden(st)
    /\ (Code(files[st]).exec # "ok" \/ Code(files[st]).merge # "ok")

\* C28: a module whose loading failed has no definition and no handler in
\* the catalog built by that scan.
C28_FailedModuleContributesNothing ==
    scan.done =>
        \A st \in ScanStemSet :
            LoadFailed(st) =>
                /\ \A i \in DOMAIN TOOLS : TOOLS[i].mod # st
                /\ \A n \in DOMAIN HANDLERS : HANDLERS[n].mod # st

\* ---- C23, C24: code validation over source texts (ValidateSpec) ----
Validated == verdict # NoOutcome

NonEmpty == source # <<>>
MarksTOOLS == \E i \in DOMAIN source : source[i] = "TOOLS"
MarksHANDLERS == \E i \in DOMAIN source : source[i] = "HANDLERS"
Matched == {k \in DOMAIN FORBIDDEN_PATTERNS :
               \E i \in DOMAIN source : source[i] = FORBIDDEN_PATTERNS[k]}
DenylistClean == Matched = {}
Encodable == \A i \in DOMAIN source : source[i] # "surrogate"
WellFormed == \A i \in DOMAIN source : source[i] # "unclosed"
Parses == Encodable /\ WellFormed

Reason(r) == verdict = [kind |-> "return", value |-> r]

\* C23: the checks run in the order non-empty, TOOLS marker, HANDLERS
\* marker, denylist, syntax; the reason returned is the one of the first
\* check that fails (for the denylist, it names the first pattern of the
\* list that the text matches), whatever later checks would say; and the
\* text is accepted exactly when all the checks pass.
C23_FirstFailingCheckDecides ==
    Validated =>
        /\ ~NonEmpty => Reason("Code is required")
        /\ (NonEmpty /\ ~MarksTOOLS) => Reason("Code must define TOOLS list")
        /\ (NonEmpty /\ MarksTOOLS /\ ~MarksHANDLERS) =>
               Reason("Code must define HANDLERS dict")
        /\ (NonEmpty /\ MarksTOOLS /\ MarksHANDLERS /\ ~DenylistClean) =>
               \E k \in Matched :
                   /\ \A j \in Matched : k <= j
                   /\ Reason("Forbidden pattern detected: " \o FORBIDDEN_PATTERNS[k])
        /\ (NonEmpty /\ MarksTOOLS /\ MarksHANDLERS /\ DenylistClean
              /\ Encodable /\ ~WellFormed) =>
               Reason("Syntax error")
        /\ Reason(None) <=>
               (NonEmpty /\ MarksTOOLS /\ MarksHANDLERS /\ DenylistClean /\ Parses)

\* a text without the HANDLERS marker that also matches the denylist and
\* does not parse: the marker check answers
C23_Witness ==
    /\ source = <<"TOOLS", "subprocess", "unclosed">>
    /\ Reason("Code must define HANDLERS dict")

\* C24: _validate_tool_code ends by returning a verdict, never by an
\* exception.
C24_ValidationNeverRaises == Validated => verdict.kind = "return"

\* ---- C30: the file a name addresses (NameSpec) ----
\* C30: for every name create_tool or delete_tool accepts, the file it
\* writes or removes is <name>.py directly in the plugin directory, with
\* <name> the stripped argument, and the next scan lists it and does not
\* skip it.
C30_AcceptedNameIsScannedChild ==
    (named.op # None /\ named.accepted) =>
        /\ named.path = Append(CUSTOM_TOOLS_DIR, Strip(named.name) \o DotPy)
        /\ \A i \in DOMAIN Strip(named.name) : Strip(named.name)[i] \notin {"/", ".", " ", "LF"}
        /\ Globbed(named.path)
        /\ ~Skipped(named.path)

\* create_tool accepted the argument " a_1" and addressed a_1.py
C30_Witness ==
    /\ named.op = "create_tool"
    /\ named.name = <<" ", "a", "_", "1">>
    /\ named.accepted
    /\ named.path = Append(CUSTOM_TOOLS_DIR, <<"a", "_", "1", ".", "p", "y">>)

\* ---- C29: concurrent create_tool calls (RaceSpec) ----
Succeeded(t) == creators[t].pc = "done" /\ creators[t].result.error = None

SameName == \A t, u \in Threads : creators[t].name = creators[u].name

\* C29: of two concurrent create_tool calls with the same name, at most one
\* returns success, and once both have returned the file holds the code of
\* the call that returned success.
C29_OneCreatorWins ==
    SameName =>
        /\ \A t, u \in Threads : (Succeeded(t) /\ Succeeded(u)) => t = u
        /\ (\A t \in Threads : creators[t].pc = "done") =>
              \A t \in Threads :
                  Succeeded(t) =>
                      files[Unspell(Strip(creators[t].name))] = creators[t].code

\* ---- C27: the reload and the request path (ReloadSpec) ----
\* C27: a call in progress never keeps a triggered reload from taking its
\* next step, and a reload in progress never keeps a waiting request from
\* being accepted and served.
C27_ReloadAndRequestsIndependent ==
    /\ rt.signal = "pending" => ENABLED SighupOfCall
    /\ reload = ReloadRequested => ENABLED RebuildOfCall
    /\ reload.state = "Rebuilding" => ENABLED (SwapOfCall \/ RebuildFailOfCall)
    /\ \A w \in Workers : calls[w].pc = "queued" => ENABLED Accept(w)

====
